---- MODULE Spec2Model ----
(***************************************************************************)
(* Model of pySimulator/nodes.py: the neuron units AbstractNeuron, LIF,    *)
(* SpikeTrain and PoissonGenerator, stepped by an external driver.         *)
(*                                                                         *)
(* Numbers are exact rationals <<n, d>> in lowest terms with d > 0.        *)
(* Python attribute lookup is modelled as it works: an instance carries a  *)
(* dictionary of the attributes assigned on it (field dict) and a read of  *)
(* an attribute that is not in it falls back to the class attribute.       *)
(* A random source is the number of draws taken from it; the value of a    *)
(* draw is chosen by the environment.                                      *)
(***************************************************************************)
EXTENDS Integers, Sequences, FiniteSets, TLC

VARIABLES cls, inst, rng, pc, err, hist

vars == <<cls, inst, rng, pc, err, hist>>

(* ---------------------------- bounds ----------------------------------- *)
MaxSteps == 3
MaxInject == 1
MaxCount == 2
MaxTrainLen == 2
MaxNetEvents == 4
MaxRngUpdates == 1

(* ------------------------ rational arithmetic -------------------------- *)
Abs(x) == IF x < 0 THEN -x ELSE x

RECURSIVE Gcd(_, _)
Gcd(a, b) == IF b = 0 THEN a ELSE Gcd(b, a % b)

Norm(n, d) ==
  LET s == IF d < 0 THEN -1 ELSE 1
      g == Gcd(Abs(n), Abs(d))
  IN  <<(s * n) \div g, (s * d) \div g>>

Rat(n, d) == Norm(n, d)
Zero == <<0, 1>>
One == <<1, 1>>

RAdd(a, b) == Norm(a[1] * b[2] + b[1] * a[2], a[2] * b[2])
RMul(a, b) == Norm(a[1] * b[1], a[2] * b[2])
RDiv(a, b) == Norm(a[1] * b[2], a[2] * b[1])
RLess(a, b) == a[1] * b[2] < b[1] * a[2]
RLeq(a, b) == a[1] * b[2] <= b[1] * a[2]
RMax(a, b) == IF RLess(a, b) THEN b ELSE a

(* -------------------------- input domains ------------------------------ *)
(* Constructor arguments, driver inputs and draws.  NormalDraws are the    *)
(* standard normal samples z, rng.normal(scale=noise) being noise * z.     *)
(* ExpDraws are the values -ln(1-u) of the uniform draws u of rng.rand(),  *)
(* which range over [0, oo) as u ranges over [0, 1); the largest of them   *)
(* exceeds MaxI, the largest I the driver can build up, so that some draw  *)
(* ends the loop of PoissonGenerator.step whatever I is.                   *)
MVals == {Rat(-1, 1), Rat(9, 10), Rat(1, 1)}
VInitVals == {Zero, One}
VResetVals == {Rat(-1, 1), Zero, Rat(2, 1)}
VRestVals == {Rat(-1, 1), Zero}
ThrVals == {One}
AmplitudeVals == {One, Rat(2, 1)}
LIFAmplitudeVals == {Rat(2, 1)}
IeVals == {Zero, One}
NoiseVals == {Rat(-1, 1), Zero, One}
TrainVals == {Zero, One, Rat(2, 1)}
InjectVals == {Rat(-1, 1), Rat(3, 2)}
NormalDraws == {Rat(-2, 1), Rat(2, 1)}
MaxI == RAdd(One, RMul(Rat(MaxInject, 1), Rat(3, 2)))
ExpDraws == {Rat(1, 2), One, RAdd(MaxI, One)}
RngIds == {1, 2}

Trains == UNION {[1..n -> TrainVals] : n \in 0..MaxTrainLen}

(* ----------------------- AbstractNeuron -------------------------------- *)
AbstractNeuron_class == [I |-> Zero, out |-> Zero]

Blank ==
  [kind |-> "AbstractNeuron", dict |-> {}, I |-> Zero, out |-> Zero,
   amplitude |-> Zero, m |-> Zero, V |-> Zero, V_reset |-> Zero,
   V_rest |-> Zero, thr |-> Zero, I_e |-> Zero, noise |-> Zero, rng |-> 0,
   train |-> <<>>, size |-> 0, index |-> 0]

AbstractNeuron_init(self, amplitude) ==
  [self EXCEPT !.amplitude = amplitude, !.dict = @ \cup {"amplitude"}]

GetAttr(W, u, a) ==
  IF a \in W.inst[u].dict THEN W.inst[u][a] ELSE W.cls[a]

HasAttr(W, u, a) == a \in W.inst[u].dict \/ a \in DOMAIN W.cls

SetAttr_on_class(W, u, a, v) ==
  IF a \in {"I", "out"}
  THEN [W EXCEPT !.cls[a] = v]
  ELSE [W EXCEPT !.inst[u] = [@ EXCEPT ![a] = v, !.dict = @ \cup {a}]]

SetAttr(W, u, a, v) ==
  [W EXCEPT !.inst[u] = [@ EXCEPT ![a] = v, !.dict = @ \cup {a}]]

AbstractNeuron_update_rng_unguarded(W, u, r) == SetAttr(W, u, "rng", r)

AbstractNeuron_update_rng(W, u, r) ==
  IF HasAttr(W, u, "rng") THEN SetAttr(W, u, "rng", r) ELSE W

Draw(W, u) == [W EXCEPT !.rng[W.inst[u].rng] = @ + 1]

(* ------------------------------ LIF ------------------------------------ *)
LIF_init(m, V_init, V_reset, V_rest, thr, amplitude, I_e, noise, r) ==
  [AbstractNeuron_init(Blank, amplitude) EXCEPT
     !.kind = "LIF", !.m = m, !.V = V_init, !.V_reset = V_reset,
     !.V_rest = V_rest, !.thr = thr, !.I_e = I_e, !.rng = r,
     !.noise = noise,
     !.dict = @ \cup {"m", "V", "V_reset", "V_rest", "thr", "I_e", "rng",
                      "noise"}]

LIF_update_additive(V, m, I) == RAdd(RAdd(V, m), I)

LIF_update(V, m, I) == RAdd(RMul(V, m), I)

LIF_noisy_at_zero(noise) == RLeq(Zero, noise)

LIF_noisy(noise) == RLess(Zero, noise)

LIF_add_noise(V, noise, z) ==
  IF LIF_noisy(noise) THEN RAdd(V, RMul(noise, z)) ELSE V

LIF_floor_missing(V_rest, V) == V

LIF_floor(V_rest, V) == RMax(V_rest, V)

LIF_spikes_at_threshold(V, thr) == RLeq(thr, V)

LIF_spikes(V, thr) == RLess(thr, V)

LIF_V_floored(W, u, z) ==
  LIF_floor(GetAttr(W, u, "V_rest"),
            LIF_add_noise(LIF_update(GetAttr(W, u, "V"), GetAttr(W, u, "m"),
                                     GetAttr(W, u, "I")),
                          GetAttr(W, u, "noise"), z))

LIF_reset_I_missing(W, u) == W

LIF_reset_I(W, u) == SetAttr(W, u, "I", GetAttr(W, u, "I_e"))

LIF_fire_without_reset(W, u) ==
  SetAttr(W, u, "out", GetAttr(W, u, "amplitude"))

LIF_fire(W, u) ==
  SetAttr(SetAttr(W, u, "V", GetAttr(W, u, "V_reset")),
          u, "out", GetAttr(W, u, "amplitude"))

LIF_step(W, u, z) ==
  LET W1 == IF LIF_noisy(GetAttr(W, u, "noise")) THEN Draw(W, u) ELSE W
      W2 == SetAttr(W1, u, "V", LIF_V_floored(W, u, z))
      W3 == LIF_reset_I(W2, u)
  IN  IF LIF_spikes(GetAttr(W3, u, "V"), GetAttr(W3, u, "thr"))
      THEN LIF_fire(W3, u)
      ELSE SetAttr(W3, u, "out", Zero)

(* --------------------------- SpikeTrain -------------------------------- *)
SpikeTrain_init(train, amplitude) ==
  [AbstractNeuron_init(Blank, amplitude) EXCEPT
     !.kind = "SpikeTrain", !.train = train, !.size = Len(train),
     !.index = 0, !.dict = @ \cup {"train", "size", "index"}]

SpikeTrain_next_index_nowrap(index, size) == index + 1

SpikeTrain_next_index(index, size) == (index + 1) % size

SpikeTrain_step(W, u) ==
  LET train == GetAttr(W, u, "train")
      index == GetAttr(W, u, "index")
  IN  IF index >= Len(train)
      THEN [W EXCEPT !.err[u] = "IndexError"]
      ELSE LET W1 == SetAttr(W, u, "out",
                             RMul(train[index + 1],
                                  GetAttr(W, u, "amplitude")))
           IN  SetAttr(W1, u, "index",
                       SpikeTrain_next_index(index, GetAttr(W1, u, "size")))

(* ------------------------ PoissonGenerator ----------------------------- *)
PoissonGenerator_init(I_e, amplitude, r) ==
  [AbstractNeuron_init(Blank, amplitude) EXCEPT
     !.kind = "PoissonGenerator", !.I_e = I_e, !.rng = r,
     !.dict = @ \cup {"I_e", "rng"}]

PoissonGenerator_step_exit_keeps_I(W, u) ==
  LET W1 == SetAttr(W, u, "out",
                    RMul(GetAttr(W, u, "out"), GetAttr(W, u, "amplitude")))
  IN  [W1 EXCEPT !.pc[u] = "idle"]

PoissonGenerator_step_exit(W, u) ==
  LET W1 == SetAttr(W, u, "out",
                    RMul(GetAttr(W, u, "out"), GetAttr(W, u, "amplitude")))
      W2 == SetAttr(W1, u, "I", GetAttr(W1, u, "I_e"))
  IN  [W2 EXCEPT !.pc[u] = "idle"]

PoissonGenerator_step_enter_keeps_out(W, u) ==
  IF RLess(Zero, GetAttr(W, u, "I"))
  THEN [W EXCEPT !.pc[u] = "loop"]
  ELSE PoissonGenerator_step_exit(W, u)

PoissonGenerator_step_enter_at_zero(W, u) ==
  LET W0 == SetAttr(W, u, "out", Zero)
  IN  IF RLeq(Zero, GetAttr(W0, u, "I"))
      THEN [W0 EXCEPT !.pc[u] = "loop"]
      ELSE PoissonGenerator_step_exit(W0, u)

PoissonGenerator_step_enter(W, u) ==
  LET W0 == SetAttr(W, u, "out", Zero)
  IN  IF RLess(Zero, GetAttr(W0, u, "I"))
      THEN [W0 EXCEPT !.pc[u] = "loop"]
      ELSE PoissonGenerator_step_exit(W0, u)

PoissonGenerator_continues(e, I) == RLess(RDiv(e, I), One)

PoissonGenerator_step_draw(W, u, e) ==
  LET W1 == Draw(W, u)
  IN  IF PoissonGenerator_continues(e, GetAttr(W1, u, "I"))
      THEN SetAttr(W1, u, "out", RAdd(GetAttr(W1, u, "out"), One))
      ELSE PoissonGenerator_step_exit(W1, u)

(* ------------------------ polymorphic step ----------------------------- *)
step(W, u, z, e) ==
  IF W.pc[u] = "loop" THEN PoissonGenerator_step_draw(W, u, e)
  ELSE IF W.inst[u].kind = "LIF" THEN LIF_step(W, u, z)
  ELSE IF W.inst[u].kind = "SpikeTrain" THEN SpikeTrain_step(W, u)
  ELSE PoissonGenerator_step_enter(W, u)

(* ------------------------------ driver --------------------------------- *)
Driver_add(W, u, x) == SetAttr(W, u, "I", RAdd(GetAttr(W, u, "I"), x))

(* --------------------------- state machine ----------------------------- *)
(* pc[u] = "loop" while unit u is inside the while loop of                 *)
(* PoissonGenerator.step; the program is single threaded, so nothing else  *)
(* runs until the loop is left.  err[u] is the exception the last step of  *)
(* u raised.  hist[u] records, for the properties, what the steps of u     *)
(* consumed: the number of completed steps, the driver's writes since the  *)
(* last step (nwrites, acc) and ever (total), the I a step read (Iin) and  *)
(* the driver's part of it (accIn), the floored potential of a LIF step    *)
(* before the spike test (Vpre), the draws of a Poisson step (drawn), the  *)
(* number of draws the last step took from the random sources (ndraws),    *)
(* the out the last step found (prevOut), and the calls of update_rng      *)
(* (nrng) with the source the last one passed (rngArg), and the V the      *)
(* unit was constructed with (V_init).                                     *)
World == [cls |-> cls, inst |-> inst, rng |-> rng, pc |-> pc, err |-> err]

Units == DOMAIN inst

Becomes(W) ==
  /\ cls' = W.cls
  /\ inst' = W.inst
  /\ rng' = W.rng
  /\ pc' = W.pc
  /\ err' = W.err

Idle == \A u \in Units : pc[u] = "idle"

HistInit ==
  [nsteps |-> 0, nwrites |-> 0, total |-> 0, acc |-> Zero, accIn |-> Zero,
   Iin |-> Zero, Vpre |-> Zero, drawn |-> <<>>, ndraws |-> 0,
   prevOut |-> Zero, nrng |-> 0, rngArg |-> 0, V_init |-> Zero]

Started(h, I, out) ==
  [h EXCEPT !.nwrites = 0, !.acc = Zero, !.accIn = h.acc, !.Iin = I,
            !.drawn = <<>>, !.ndraws = 0, !.prevOut = out]

RECURSIVE DrawsOf(_, _)
DrawsOf(W, R) ==
  IF R = {} THEN 0
  ELSE LET r == CHOOSE x \in R : TRUE
       IN  W.rng[r] + DrawsOf(W, R \ {r})

Drew(h, W) ==
  [h EXCEPT !.ndraws = @ + DrawsOf(W, RngIds) - DrawsOf(World, RngIds)]

Completed(h) == [h EXCEPT !.nsteps = @ + 1]

RECURSIVE StepsOf(_)
StepsOf(S) ==
  IF S = {} THEN 0
  ELSE LET u == CHOOSE x \in S : TRUE
       IN  hist[u].nsteps + (IF pc[u] = "loop" THEN 1 ELSE 0)
             + StepsOf(S \ {u})

RECURSIVE WritesOf(_)
WritesOf(S) ==
  IF S = {} THEN 0
  ELSE LET u == CHOOSE x \in S : TRUE
       IN  hist[u].total + hist[u].nrng + WritesOf(S \ {u})

CanStep ==
  IF Cardinality(Units) = 1
  THEN StepsOf(Units) < MaxSteps
  ELSE StepsOf(Units) + WritesOf(Units) < MaxNetEvents

LIFs(R) ==
  {LIF_init(m, vi, vr, vs, th, am, ie, no, r) :
     m \in MVals, vi \in VInitVals, vr \in VResetVals, vs \in VRestVals,
     th \in ThrVals, am \in LIFAmplitudeVals, ie \in IeVals,
     no \in NoiseVals, r \in R}

SpikeTrains == {SpikeTrain_init(t, am) : t \in Trains, am \in AmplitudeVals}

(* LIF units whose spikes are scaled by amplitude = 0. *)
SilentLIFs(R) ==
  {LIF_init(One, vi, vr, Zero, th, Zero, ie, Zero, r) :
     vi \in VInitVals, vr \in VResetVals, th \in ThrVals, ie \in IeVals,
     r \in R}

PoissonGenerators(R) ==
  {PoissonGenerator_init(ie, am, r) :
     ie \in IeVals, am \in AmplitudeVals, r \in R}

InitWith(U, Population) ==
  /\ cls = AbstractNeuron_class
  /\ inst \in [U -> Population]
  /\ rng = [r \in RngIds |-> 0]
  /\ pc = [u \in U |-> "idle"]
  /\ err = [u \in U |-> "none"]
  /\ hist = [u \in U |-> [HistInit EXCEPT !.V_init = inst[u].V]]

Init ==
  InitWith({1}, LIFs({1}) \cup SilentLIFs({1}) \cup SpikeTrains
                \cup PoissonGenerators({1}))

NetPopulation ==
  {LIF_init(One, Zero, Zero, Zero, One, One, One, One, 1)}
  \cup {SpikeTrain_init(<<One, Rat(2, 1)>>, One)}
  \cup {PoissonGenerator_init(One, One, r) : r \in RngIds}

InitNet == InitWith({1, 2}, NetPopulation)

SmallPopulation ==
  {LIF_init(One, Zero, Zero, Zero, One, Rat(2, 1), One, Zero, 1)}
  \cup {SpikeTrain_init(<<One, Rat(2, 1)>>, One)}
  \cup {PoissonGenerator_init(One, Rat(2, 1), 1)}

InitSmall == InitWith({1}, SmallPopulation)

RngPopulation ==
  {LIF_init(One, Zero, Zero, Zero, One, Rat(2, 1), One, no, 1) :
     no \in {Zero, One}}
  \cup {SpikeTrain_init(<<One, Rat(2, 1)>>, One)}
  \cup {PoissonGenerator_init(One, Rat(2, 1), 1)}

InitRng == InitWith({1, 2}, RngPopulation)

Injectable == IF Cardinality(Units) = 1 THEN InjectVals ELSE {Rat(3, 2)}

DriverWrite(u) ==
  /\ Idle
  /\ CanStep
  /\ hist[u].nwrites < MaxInject
  /\ \E x \in Injectable :
       /\ Becomes(Driver_add(World, u, x))
       /\ hist' = [hist EXCEPT ![u].nwrites = @ + 1,
                               ![u].total = @ + 1,
                               ![u].acc = RAdd(@, x)]

LIFStep(u) ==
  /\ Idle
  /\ inst[u].kind = "LIF"
  /\ CanStep
  /\ \E z \in NormalDraws :
       \E W \in {LIF_step(World, u, z)} :
         /\ Becomes(W)
         /\ hist' = [hist EXCEPT
              ![u] = [Drew(Completed(Started(@, GetAttr(World, u, "I"),
                                                  GetAttr(World, u, "out"))),
                           W) EXCEPT
                        !.Vpre = LIF_V_floored(World, u, z)]]

SpikeTrainStep(u) ==
  /\ Idle
  /\ inst[u].kind = "SpikeTrain"
  /\ CanStep
  /\ Becomes(SpikeTrain_step(World, u))
  /\ hist' = IF SpikeTrain_step(World, u).err[u] = "IndexError"
             THEN hist
             ELSE [hist EXCEPT
                     ![u] = Drew(Completed(Started(@, GetAttr(World, u, "I"),
                                                   GetAttr(World, u, "out"))),
                                 SpikeTrain_step(World, u))]

PoissonStepEnter(u) ==
  /\ Idle
  /\ inst[u].kind = "PoissonGenerator"
  /\ CanStep
  /\ LET W == PoissonGenerator_step_enter(World, u)
         h == Drew(Started(hist[u], GetAttr(World, u, "I"),
                           GetAttr(World, u, "out")), W)
     IN  /\ Becomes(W)
         /\ hist' = [hist EXCEPT
                       ![u] = IF W.pc[u] = "idle" THEN Completed(h) ELSE h]

PoissonStepDraw(u) ==
  /\ pc[u] = "loop"
  /\ \E e \in ExpDraws :
       \E W \in {PoissonGenerator_step_draw(World, u, e)} :
         \E h \in {Drew([hist[u] EXCEPT !.drawn = Append(@, e)], W)} :
           /\ Len(hist[u].drawn) >= MaxCount => W.pc[u] = "idle"
           /\ Becomes(W)
           /\ hist' = [hist EXCEPT
                         ![u] = IF W.pc[u] = "idle" THEN Completed(h) ELSE h]

UpdateRng(u) ==
  /\ Idle
  /\ CanStep
  /\ hist[u].nrng < MaxRngUpdates
  /\ \E r \in RngIds :
       /\ Becomes(AbstractNeuron_update_rng(World, u, r))
       /\ hist' = [hist EXCEPT ![u].nrng = @ + 1, ![u].rngArg = r]

Next ==
  \/ \E u \in Units : DriverWrite(u)
  \/ \E u \in Units : LIFStep(u)
  \/ \E u \in Units : SpikeTrainStep(u)
  \/ \E u \in Units : PoissonStepEnter(u)
  \/ \E u \in Units : PoissonStepDraw(u)

NextRng ==
  \/ Next
  \/ \E u \in Units : UpdateRng(u)

Spec == Init /\ [][Next]_vars

SpecNet == InitNet /\ [][Next]_vars

SpecRng == InitRng /\ [][NextRng]_vars

SpecSmall == InitSmall /\ [][Next]_vars

(* The random source eventually yields a draw whose interval ends the      *)
(* loop of PoissonGenerator.step.                                          *)
LoopExit ==
  \E u \in Units :
    /\ pc[u] = "loop"
    /\ \E e \in ExpDraws :
         /\ ~PoissonGenerator_continues(e, inst[u].I)
         /\ \E W \in {PoissonGenerator_step_draw(World, u, e)} :
              \E h \in {Drew([hist[u] EXCEPT !.drawn = Append(@, e)], W)} :
                /\ Becomes(W)
                /\ hist' = [hist EXCEPT ![u] = Completed(h)]

SpecLive == InitSmall /\ [][Next]_vars /\ WF_vars(LoopExit)

TypeOK ==
  \A u \in Units :
    /\ pc[u] \in {"idle", "loop"}
    /\ err[u] \in {"none", "IndexError"}
    /\ hist[u].nsteps \in Nat
    /\ hist[u].nrng \in 0..MaxRngUpdates

(* ------------------------------ claims --------------------------------- *)
IsLIF(u) == inst[u].kind = "LIF"
IsSpikeTrain(u) == inst[u].kind = "SpikeTrain"
IsPoisson(u) == inst[u].kind = "PoissonGenerator"
Stepped(u) == hist[u].nsteps > 0 /\ pc[u] = "idle"
CurI(u) == GetAttr(World, u, "I")
CurOut(u) == GetAttr(World, u, "out")

(* C1 as stated: after every LIF.step(), V >= V_rest, whatever the         *)
(* construction parameters.                                                *)
C1_FloorAlways ==
  \A u \in Units :
    IsLIF(u) /\ Stepped(u) => RLeq(inst[u].V_rest, inst[u].V)

(* C1 amended: after every LIF.step(), V >= V_rest unless that step        *)
(* spiked, in which case V = V_reset; so V >= V_rest after every step of   *)
(* a unit with V_reset >= V_rest.                                          *)
C1_FloorUnlessReset ==
  \A u \in Units :
    IsLIF(u) /\ Stepped(u) =>
      /\ \/ RLeq(inst[u].V_rest, inst[u].V)
         \/ LIF_spikes(hist[u].Vpre, inst[u].thr) /\ inst[u].V = inst[u].V_reset
      /\ RLeq(inst[u].V_rest, inst[u].V_reset)
           => RLeq(inst[u].V_rest, inst[u].V)

C1_Witness ==
  \E u \in Units :
    /\ IsLIF(u) /\ Stepped(u)
    /\ RLess(hist[u].Iin, Zero)
    /\ ~LIF_spikes(hist[u].Vpre, inst[u].thr)
    /\ inst[u].V = inst[u].V_rest

(* The count of the interval-accumulation process over a unit window: the  *)
(* intervals e/I are summed into t and a draw counts while t stays < 1.    *)
RECURSIVE AccumulatedCount(_, _, _)
AccumulatedCount(draws, I, t) ==
  IF draws = <<>> THEN 0
  ELSE LET t1 == RAdd(t, RDiv(Head(draws), I))
       IN  IF RLess(t1, One)
           THEN 1 + AccumulatedCount(Tail(draws), I, t1)
           ELSE 0

(* C2: a PoissonGenerator.step() with I > 0 yields out = amplitude times   *)
(* the number of draws after which the running sum of the intervals        *)
(* -ln(1-u)/I was still < 1.                                               *)
C2_IntervalAccumulation ==
  \A u \in Units :
    IsPoisson(u) /\ Stepped(u) /\ RLess(Zero, hist[u].Iin) =>
      CurOut(u) = RMul(Rat(AccumulatedCount(hist[u].drawn, hist[u].Iin, Zero), 1),
                       inst[u].amplitude)

(* C3: for a non-empty train, 0 <= index < size always, index is the       *)
(* number of steps taken modulo size, and the k-th step (from 0) left      *)
(* out = train[k mod size] * amplitude, whatever was written to I.         *)
C3_CyclicReplay ==
  \A u \in Units :
    IsSpikeTrain(u) /\ inst[u].size > 0 =>
      /\ inst[u].index \in 0..(inst[u].size - 1)
      /\ inst[u].index = hist[u].nsteps % inst[u].size
      /\ hist[u].nsteps > 0 =>
           CurOut(u) = RMul(inst[u].train[((hist[u].nsteps - 1) % inst[u].size) + 1],
                            inst[u].amplitude)

C3_Witness ==
  \E u \in Units :
    /\ IsSpikeTrain(u)
    /\ inst[u].size = 2
    /\ inst[u].train[1] # inst[u].train[2]
    /\ hist[u].nsteps = 3
    /\ hist[u].total > 0

(* C4: no SpikeTrain with an empty train exists after construction         *)
(* (construction fails), and no error is raised at step time.              *)
C4_ConstructionGuard ==
  \A u \in Units :
    IsSpikeTrain(u) => inst[u].size > 0 /\ err[u] = "none"

(* C5: with V' the potential after leak, input, noise and floor, a         *)
(* LIF.step() spikes exactly when V' > thr; then out = amplitude and       *)
(* V = V_reset, otherwise out = 0 and V = V'.                              *)
C5_SpikeAndReset ==
  \A u \in Units :
    IsLIF(u) /\ Stepped(u) =>
      IF RLess(inst[u].thr, hist[u].Vpre)
      THEN CurOut(u) = inst[u].amplitude /\ inst[u].V = inst[u].V_reset
      ELSE CurOut(u) = Zero /\ inst[u].V = hist[u].Vpre

C5_Witness ==
  \E u \in Units :
    /\ IsLIF(u) /\ Stepped(u)
    /\ RLess(inst[u].thr, hist[u].Vpre)
    /\ CurOut(u) = inst[u].amplitude
    /\ inst[u].V = inst[u].V_reset
    /\ inst[u].V_reset # hist[u].Vpre

(* C6: the input consumed by every step() of a LIF or PoissonGenerator,    *)
(* the first one included, is I_e plus what the driver added to I since    *)
(* the previous step (or since construction).                              *)
C6_BiasEveryStep ==
  \A u \in Units :
    (IsLIF(u) \/ IsPoisson(u)) /\ hist[u].nsteps > 0 =>
      hist[u].Iin = RAdd(inst[u].I_e, hist[u].accIn)

(* The baseline of the shared contract: the bias I_e for LIF and           *)
(* PoissonGenerator, the class default of I for SpikeTrain.                *)
Baseline(u) == IF IsSpikeTrain(u) THEN cls.I ELSE inst[u].I_e

(* C7 as stated: for every variant, after a step I holds only the          *)
(* baseline plus the input accumulated since that step.                    *)
C7_SharedReset ==
  \A u \in Units :
    Stepped(u) => CurI(u) = RAdd(Baseline(u), hist[u].acc)

(* C7 amended: every step() of a LIF or PoissonGenerator leaves I = I_e,   *)
(* whatever I was before; SpikeTrain.step() neither reads nor writes I,    *)
(* so input written to a SpikeTrain carries over.                          *)
C7_ResetExceptSpikeTrain ==
  [][\A u \in DOMAIN inst :
       hist'[u].nsteps = hist[u].nsteps + 1 =>
         IF inst[u].kind = "SpikeTrain"
         THEN /\ inst'[u].I = inst[u].I
              /\ ("I" \in inst'[u].dict) = ("I" \in inst[u].dict)
         ELSE /\ inst'[u].I = inst[u].I_e
              /\ "I" \in inst'[u].dict]_vars

C7_Witness ==
  \E u \in Units :
    /\ IsSpikeTrain(u) /\ Stepped(u)
    /\ hist[u].acc = Zero
    /\ CurI(u) # Zero

(* The environment's draws, paired so that one index picks the normal     *)
(* and the uniform draw offered to a step.                                 *)
DrawPairs == {<<Rat(-2, 1), Rat(1, 2)>>, <<Rat(2, 1), RAdd(MaxI, One)>>}

SharesRng(u, v) ==
  /\ "rng" \in inst[u].dict
  /\ "rng" \in inst[v].dict
  /\ inst[u].rng = inst[v].rng

(* C9: a step of one unit leaves the class attributes and the I, out, V    *)
(* and index (every attribute) of every other unit unchanged; for units    *)
(* that do not share a random source, steps of different units commute.    *)
C9_UnitIndependence ==
  \A u, v \in Units :
    u # v =>
      \A d1 \in DrawPairs :
        LET Wu == step(World, u, d1[1], d1[2])
        IN  /\ Wu.cls = cls
            /\ Wu.inst[v] = inst[v]
            /\ Wu.pc[v] = pc[v]
            /\ Wu.err[v] = err[v]
            /\ u < v /\ ~SharesRng(u, v) =>
                 \A d2 \in DrawPairs :
                   step(Wu, v, d2[1], d2[2])
                     = step(step(World, v, d2[1], d2[2]), u, d1[1], d1[2])

C9_Witness ==
  \E u, v \in Units :
    /\ u # v
    /\ ~SharesRng(u, v)
    /\ hist[u].nsteps > 0 /\ hist[v].nsteps > 0
    /\ {"I", "out"} \subseteq inst[u].dict
    /\ {"I", "out"} \subseteq inst[v].dict
    /\ CurOut(u) # CurOut(v)
    /\ CurI(u) # CurI(v)

(* C10: a PoissonGenerator.step() called with I <= 0 draws nothing and     *)
(* leaves out = 0 whatever amplitude is; with I_e = 0 and no external      *)
(* input, out = 0 in every state and the loop is never entered.            *)
C10_ZeroRate ==
  \A u \in Units :
    IsPoisson(u) =>
      /\ Stepped(u) /\ RLeq(hist[u].Iin, Zero) =>
           CurOut(u) = Zero /\ hist[u].drawn = <<>>
      /\ inst[u].I_e = Zero /\ hist[u].total = 0 =>
           CurOut(u) = Zero /\ pc[u] = "idle" /\ rng[inst[u].rng] = 0

C10_Witness ==
  \E u \in Units :
    /\ IsPoisson(u) /\ Stepped(u)
    /\ hist[u].nsteps >= 2
    /\ RLeq(hist[u].Iin, Zero)
    /\ rng[inst[u].rng] > 1
    /\ inst[u].amplitude = Rat(2, 1)

(* The unit of the deterministic test: noiseless, m = 1, V_init = 0,       *)
(* thr = 1, I_e = 0, the other arguments at their defaults.                *)
C11_Unit(u) ==
  /\ inst[u].kind = "LIF"
  /\ ~LIF_noisy(inst[u].noise)
  /\ inst[u].m = One
  /\ hist[u].V_init = Zero
  /\ inst[u].thr = One
  /\ inst[u].I_e = Zero
  /\ inst[u].V_reset = Zero
  /\ inst[u].V_rest = Zero

C12_Quiescence ==
  \A u \in Units :
    /\ IsLIF(u)
    /\ ~LIF_noisy(inst[u].noise)
    /\ RLess(Zero, inst[u].m) /\ RLess(inst[u].m, One)
    /\ hist[u].V_init = Zero
    /\ inst[u].V_rest = Zero
    /\ inst[u].I_e = Zero
    /\ inst[u].thr = One
    /\ hist[u].total = 0
    => CurOut(u) = Zero /\ inst[u].V = inst[u].V_rest

C12_Witness ==
  \E u \in Units :
    /\ IsLIF(u)
    /\ inst[u].noise = Zero
    /\ inst[u].m = Rat(9, 10)
    /\ hist[u].V_init = Zero
    /\ inst[u].V_rest = Zero
    /\ inst[u].I_e = Zero
    /\ hist[u].total = 0
    /\ hist[u].nsteps >= 3
    /\ inst[u].V = Zero

(* C13: no LIF with noise < 0 exists after construction (construction      *)
(* fails with InvalidParameter), and no step raises.                       *)
C13_NoiseValidated ==
  \A u \in Units :
    IsLIF(u) => ~RLess(inst[u].noise, Zero) /\ err[u] = "none"

(* C14 as stated: update_rng is a no-op on a SpikeTrain and on a LIF       *)
(* without noise, and otherwise changes nothing but the random source.     *)
C14_NoOpWithoutNoise ==
  [][\A u \in DOMAIN inst :
       hist'[u].nrng = hist[u].nrng + 1 =>
         IF \/ inst[u].kind = "SpikeTrain"
            \/ inst[u].kind = "LIF" /\ ~LIF_noisy(inst[u].noise)
         THEN inst'[u] = inst[u]
         ELSE inst'[u] = [inst[u] EXCEPT !.rng = hist'[u].rngArg]]_vars

(* C14 amended: update_rng(rng) replaces the random source of every LIF    *)
(* (with or without noise) and every PoissonGenerator and is a no-op on a  *)
(* SpikeTrain; it changes no other attribute of the unit, no other unit,   *)
(* no class attribute and draws nothing.                                   *)
C14_ReplacesWhereRngExists ==
  [][\A u \in DOMAIN inst :
       hist'[u].nrng = hist[u].nrng + 1 =>
         /\ IF inst[u].kind = "SpikeTrain"
            THEN inst'[u] = inst[u]
            ELSE inst'[u] = [inst[u] EXCEPT !.rng = hist'[u].rngArg]
         /\ \A v \in DOMAIN inst \ {u} : inst'[v] = inst[v]
         /\ cls' = cls /\ rng' = rng /\ pc' = pc /\ err' = err]_vars

C14_Witness ==
  \E u \in Units :
    /\ IsLIF(u)
    /\ inst[u].noise = Zero
    /\ hist[u].nrng = 1
    /\ hist[u].rngArg = 2
    /\ inst[u].rng = 2
    /\ hist[u].nsteps > 0

(* C15: every step() terminates.  A LIF or SpikeTrain step is one action   *)
(* and never waits in a loop; the loop of PoissonGenerator.step is only    *)
(* entered with I > 0 and, the random source eventually yielding a draw    *)
(* whose interval is >= 1, it is eventually left.                          *)
C15_StepTerminates ==
  /\ (~Idle) ~> Idle
  /\ [](\A u \in Units :
          pc[u] = "loop" => IsPoisson(u) /\ RLess(Zero, hist[u].Iin))

C15_Witness ==
  \E u \in Units :
    /\ IsPoisson(u)
    /\ pc[u] = "loop"
    /\ Len(hist[u].drawn) >= 2
    /\ CurOut(u) = Rat(2, 1)

(* C16: the state reached by completing a LIF.step or a                    *)
(* PoissonGenerator.step has I = I_e, stored on the unit itself, whatever  *)
(* I was before the step, whether or not a spike was emitted and whether   *)
(* or not the Poisson loop was entered.                                    *)
C16_BiasResetAfterStep ==
  [][\A u \in DOMAIN inst :
       /\ inst[u].kind \in {"LIF", "PoissonGenerator"}
       /\ hist'[u].nsteps = hist[u].nsteps + 1
       => /\ "I" \in inst'[u].dict
          /\ inst'[u].I = inst'[u].I_e]_vars

C16_Witness ==
  \E u \in Units :
    /\ IsPoisson(u)
    /\ Stepped(u)
    /\ hist[u].nsteps = 1
    /\ hist[u].nwrites = 0
    /\ hist[u].Iin = Zero
    /\ inst[u].I_e = One
    /\ CurI(u) = One

(* C17: a completed LIF.step has consumed one draw when noise > 0 and none *)
(* otherwise; a completed PoissonGenerator.step has consumed none when I   *)
(* was <= 0 at entry and out / amplitude + 1 draws otherwise; a            *)
(* SpikeTrain.step consumes none.  The draws are taken from the unit's own *)
(* random source.                                                          *)
C17_DrawConsumption ==
  \A u \in Units :
    Stepped(u) =>
      CASE IsLIF(u) ->
             hist[u].ndraws = (IF RLess(Zero, inst[u].noise) THEN 1 ELSE 0)
        [] IsSpikeTrain(u) -> hist[u].ndraws = 0
        [] IsPoisson(u) ->
             IF RLeq(hist[u].Iin, Zero)
             THEN hist[u].ndraws = 0
             ELSE Rat(hist[u].ndraws, 1) =
                    RAdd(RDiv(CurOut(u), inst[u].amplitude), One)

C17_Witness ==
  \E u \in Units :
    /\ IsPoisson(u)
    /\ Stepped(u)
    /\ RLess(Zero, hist[u].Iin)
    /\ inst[u].amplitude = Rat(2, 1)
    /\ CurOut(u) = Rat(4, 1)
    /\ hist[u].ndraws = 3

(* C18 as stated: for a LIF with V_reset <= thr, after every step          *)
(* V <= thr, out is 0 or amplitude, and out = amplitude implies            *)
(* V = V_reset.                                                            *)
C18_SubThresholdAfterStep ==
  \A u \in Units :
    IsLIF(u) /\ RLeq(inst[u].V_reset, inst[u].thr) /\ Stepped(u) =>
      /\ RLeq(inst[u].V, inst[u].thr)
      /\ CurOut(u) \in {Zero, inst[u].amplitude}
      /\ CurOut(u) = inst[u].amplitude => inst[u].V = inst[u].V_reset

(* C18 amended: for a LIF with V_reset <= thr, after every step V <= thr   *)
(* and out is 0 or amplitude; when amplitude is not 0, out = amplitude     *)
(* implies V = V_reset.                                                    *)
C18_SubThresholdNonzeroAmplitude ==
  \A u \in Units :
    IsLIF(u) /\ RLeq(inst[u].V_reset, inst[u].thr) /\ Stepped(u) =>
      /\ RLeq(inst[u].V, inst[u].thr)
      /\ CurOut(u) \in {Zero, inst[u].amplitude}
      /\ inst[u].amplitude # Zero /\ CurOut(u) = inst[u].amplitude
           => inst[u].V = inst[u].V_reset

C18_Witness ==
  \E u \in Units :
    /\ IsLIF(u) /\ Stepped(u)
    /\ hist[u].nsteps >= 2
    /\ RLess(inst[u].V_reset, inst[u].thr)
    /\ RLess(Zero, inst[u].noise)
    /\ inst[u].amplitude # Zero
    /\ CurOut(u) = inst[u].amplitude
    /\ inst[u].V = inst[u].V_reset
    /\ hist[u].prevOut = Zero

====
